---- MODULE Spec2Model ----
(***************************************************************************)
(* Model of source/languageHandler.py (NVDA language and localization      *)
(* support): normalizeLanguage, localeNameToWindowsLCID,                   *)
(* windowsLCIDToLocaleName, getLanguageDescription, getAvailableLanguages, *)
(* getWindowsLanguage, setLanguage, setLocale and getLanguage.             *)
(*                                                                         *)
(* Strings are sequences of one-character strings, so that replace, split, *)
(* lower, upper and join are computed as the Python code computes them.    *)
(* The OS, the gettext catalog loader and the C runtime's setlocale are    *)
(* collaborators: every outcome they can produce is a nondeterministic     *)
(* choice of the step that calls them.                                     *)
(***************************************************************************)
EXTENDS Integers, Sequences, FiniteSets, TLC

VARIABLES
    curLang,      \* languageHandler.curLang
    installed,    \* the catalog whose lookup functions are installed
    threadLocale, \* the Windows thread locale (an LCID)
    pyLocale,     \* the C runtime locale: [name, readable]
    pc,           \* position of the running call ("idle": none)
    call,         \* the top-level call in progress or last made
    lang,         \* setLanguage's parameter
    localeName,   \* setLanguage's local localeName
    trans,        \* setLanguage's local trans
    stack,        \* setLocale's activation records, innermost last
    log,          \* what the call in progress (or last made) has done
    raised,       \* the exception that escaped the last call, or "none"
    nIn,          \* normalizeLanguage: the input string
    nOut,         \* normalizeLanguage(nIn)
    nOut2,        \* normalizeLanguage(normalizeLanguage(nIn))
    rCall,        \* the resolver function called last, or "none"
    rArg,         \* its arguments and what its collaborators answered
    rRet          \* what it returned, or the exception it raised

vars == <<curLang, installed, threadLocale, pyLocale, pc, call, lang,
          localeName, trans, stack, log, raised, nIn, nOut, nOut2,
          rCall, rArg, rRet>>

progVars == <<curLang, installed, threadLocale, pyLocale, pc, call, lang,
              localeName, trans, stack, log, raised>>

normVars == <<nIn, nOut, nOut2>>

resVars == <<rCall, rArg, rRet>>

-----------------------------------------------------------------------------
(* Bounds *)

\* Longest input string given to normalizeLanguage.
MaxLen == 5

\* Deepest setLocale recursion the model follows.
MaxDepth == 3

-----------------------------------------------------------------------------
(* Strings *)

LowerAlpha ==
    <<"a","b","c","d","e","f","g","h","i","j","k","l","m",
      "n","o","p","q","r","s","t","u","v","w","x","y","z">>

UpperAlpha ==
    <<"A","B","C","D","E","F","G","H","I","J","K","L","M",
      "N","O","P","Q","R","S","T","U","V","W","X","Y","Z">>

IsUpperChar(c) == \E i \in 1..26 : UpperAlpha[i] = c

IsLowerChar(c) == \E i \in 1..26 : LowerAlpha[i] = c

\* str.lower() on one character
LowerChar(c) ==
    IF IsUpperChar(c)
    THEN LowerAlpha[CHOOSE i \in 1..26 : UpperAlpha[i] = c]
    ELSE c

\* str.upper() on one character
UpperChar(c) ==
    IF IsLowerChar(c)
    THEN UpperAlpha[CHOOSE i \in 1..26 : LowerAlpha[i] = c]
    ELSE c

StrLower(s) == [i \in 1..Len(s) |-> LowerChar(s[i])]

StrUpper(s) == [i \in 1..Len(s) |-> UpperChar(s[i])]

\* s.replace(a, b) for one-character a and b
StrReplace(s, a, b) == [i \in 1..Len(s) |-> IF s[i] = a THEN b ELSE s[i]]

\* c in s
StrContains(s, c) == \E i \in 1..Len(s) : s[i] = c

\* s.split(sep): every separator splits, so n separators give n+1 parts
RECURSIVE StrSplit(_, _)
StrSplit(s, sep) ==
    IF ~StrContains(s, sep)
    THEN <<s>>
    ELSE LET i == CHOOSE k \in 1..Len(s) :
                     /\ s[k] = sep
                     /\ \A j \in 1..(k - 1) : s[j] # sep
         IN  <<SubSeq(s, 1, i - 1)>> \o StrSplit(SubSeq(s, i + 1, Len(s)), sep)

\* sep.join(parts), parts not empty
RECURSIVE StrJoin(_, _)
StrJoin(parts, sep) ==
    IF Len(parts) = 1
    THEN parts[1]
    ELSE parts[1] \o <<sep>> \o StrJoin(Tail(parts), sep)

\* Python's None, which is no string
None == <<"None">>

\* A variable not assigned yet
Unset == <<"unset">>

EN == <<"e","n">>

WINDOWS == <<"W","i","n","d","o","w","s">>

-----------------------------------------------------------------------------
(* normalizeLanguage *)

\* Faulty variant: the dialect is left as it was given.
KeepDialect(ld) == ld

\* Faulty variant: the dialect's case is swapped instead of raised.
SwapDialect(ld) ==
    IF Len(ld) >= 2
    THEN [ld EXCEPT ![2] = [i \in 1..Len(ld[2]) |->
                               IF IsUpperChar(ld[2][i])
                               THEN LowerChar(ld[2][i])
                               ELSE UpperChar(ld[2][i])]]
    ELSE ld

\* ld[1] = ld[1].upper() when the list has a second element
UpperDialect(ld) ==
    IF Len(ld) >= 2 THEN [ld EXCEPT ![2] = StrUpper(ld[2])] ELSE ld

normalizeLanguage(l) ==
    LET replaced == StrReplace(l, "-", "_")
        split    == StrSplit(replaced, "_")
        ld       == [split EXCEPT ![1] = StrLower(split[1])]
    IN  IF ld[1] = <<"x">>
        THEN None
        ELSE StrJoin(UpperDialect(ld), "_")

\* The characters the checked inputs of normalizeLanguage are made of.
NormChars == {"a", "A", "x", "X", "-", "_"}

NormInputs == UNION {[1..n -> NormChars] : n \in 0..MaxLen}

-----------------------------------------------------------------------------
(* Program constants and the collaborators' values *)

LOCALE_USER_DEFAULT == 1024

LOCALE_CUSTOM_UNSPECIFIED == 4096

LCID_NONE == 0

DE == <<"d","e">>

ES == <<"e","s">>

ES_DASH == <<"e","s","-","E","S">>

ES_UNDER == <<"e","s","_","E","S">>

META == <<"x","-","W">>

\* The strings setLanguage is called with: the sentinel, plain languages,
\* an OS-style tag and a language_COUNTRY code.
Requested == {WINDOWS, EN, DE, ES_DASH, ES_UNDER}

\* The strings setLocale is called with directly.
LocaleCodes == {EN, DE, ES_DASH, ES_UNDER}

\* Python's locale.windows_locale (an excerpt): 0x0C0A is "es_ES".
windows_locale == [id \in {3082} |-> ES_UNDER]

\* What GetUserDefaultUILanguage can return: an id of locale.windows_locale and
\* one that Python's table does not hold.
UILanguageIds == {3082, 4096}

\* What LCIDToLocaleName can leave in the buffer: nothing (the call is missing
\* or fails), a meta language name, a language-COUNTRY name.
LocaleNameBuffers == {<<>>, META, ES_DASH}

\* What the OS's LocaleNameToLCID can return: 0 (no such name), the id of
\* every custom locale, a real id.
OSLCIDs == {0, 4096, 3082}

\* gettext.NullTranslations, the catalog translation(fallback=True) returns
Fallback == <<"fallback">>

\* No catalog installed yet
NotInstalled == <<"not installed">>

\* The C runtime's locale at start, and the locale setlocale(LC_ALL, "") sets
CLocale == <<"C">>

SystemDefault == <<"system default">>

Event(e, d, n, o, i, r) ==
    [ev |-> e, depth |-> d, name |-> n, out |-> o, id |-> i, os |-> r]

Frame(code) == [orig |-> code, name |-> code, at |-> "try1"]

-----------------------------------------------------------------------------
(* localeNameToWindowsLCID *)

\* localeName.replace('_','-'), the name handed to LocaleNameToLCID
OSLocaleName(name) == StrReplace(name, "_", "-")

\* Faulty variant: the OS's answer is passed on as it is.
PassLCIDThrough(LCID) == LCID

\* LCID is what LocaleNameToLCID returned
localeNameToWindowsLCID(LCID) ==
    IF LCID = LOCALE_CUSTOM_UNSPECIFIED THEN LCID_NONE ELSE LCID

(* getWindowsLanguage *)

\* buf is what LCIDToLocaleName left in the buffer (empty when the call
\* raised AttributeError)
getWindowsLanguage(windowsLCID, buf) ==
    IF windowsLCID \in DOMAIN windows_locale
    THEN windows_locale[windowsLCID]
    ELSE IF buf # <<>> THEN normalizeLanguage(buf) ELSE EN

(* getLanguage *)

getLanguage == curLang

(* setLanguage, lines 173-179: ok is whether gettext.translation found the
   catalog; otherwise it raised IOError *)

\* Faulty variant: curLang is the requested name whether or not it loaded.
RequestedLang(name, ok) == name

LoadedLang(name, ok) == IF ok THEN name ELSE EN

LoadedTrans(name, ok) == IF ok THEN name ELSE Fallback

\* Faulty variant: the thread locale is set for "Windows" as well.
NeverSentinel(l) == FALSE

\* Line 162: lang == "Windows"
IsWindowsSentinel(l) == l = WINDOWS

\* Faulty variant: the IOError of the thread-locale step ends setLanguage.
StopOnIOError(out) == IF out = "IOError" THEN "idle" ELSE "load"

\* Lines 167-173: where control goes after the thread-locale step, whatever
\* its outcome out: "except IOError" logs and the catalog load follows
AfterThreadLocale(out) == "load"

\* Faulty variant: setLocale is called with the name the load was tried with.
RequestedArgument(requested, active) == requested

\* Line 183: the argument of setLocale, curLang (active), not localeName
\* (requested)
LocaleArgument(requested, active) == active

(* setLocale *)

\* The three except clauses of an attempt: "ok" (set and read back),
\* "Error" (locale.Error: not set), "ValueError" (set, getlocale raised)
AttemptOutcomes == {"ok", "Error", "ValueError"}

LocaleAfter(old, name, out) ==
    CASE out = "ok"         -> [name |-> name, readable |-> TRUE]
      [] out = "ValueError" -> [name |-> name, readable |-> FALSE]
      [] OTHER              -> old

\* Faulty variant: the dash test of line 226 is left out.
AfterExactNoDashTest(name) ==
    IF StrContains(name, "_") THEN "try3" ELSE "fallback"

\* Where control goes after the first attempt failed (lines 226, 239, 252)
AfterExact(name) ==
    IF StrContains(name, "-") THEN "try2"
    ELSE IF StrContains(name, "_") THEN "try3"
    ELSE "fallback"

\* Where control goes after the second attempt failed (lines 239, 252)
AfterDashToUnderscore(name) ==
    IF StrContains(name, "_") THEN "try3" ELSE "fallback"

\* localeName.replace('-', '_')
DashToUnderscore(name) == StrReplace(name, "-", "_")

\* localeName.split('_')[0]
LanguageOnly(name) == StrSplit(name, "_")[1]

\* Faulty variant: the test of line 257 is left out.
AlwaysRecurse(readable, orig, cur) ==
    IF readable THEN "return" ELSE "recurse"

\* Faulty variant: no reset to the system default for the active language.
NeverReset(readable, orig, cur) ==
    IF readable \/ orig = cur THEN "return" ELSE "recurse"

\* Lines 252-264: "return" (getlocale succeeded), "system" or "recurse"
FallbackChoice(readable, orig, cur) ==
    IF readable THEN "return"
    ELSE IF orig = cur THEN "system"
    ELSE "recurse"

-----------------------------------------------------------------------------
(* The state after construction: module level code, line 30 *)

InitProg ==
    /\ curLang = EN
    /\ installed = NotInstalled
    /\ threadLocale = LOCALE_USER_DEFAULT
    /\ pyLocale = [name |-> CLocale, readable |-> TRUE]
    /\ pc = "idle"
    /\ call = "none"
    /\ lang = Unset
    /\ localeName = Unset
    /\ trans = Unset
    /\ stack = <<>>
    /\ log = <<>>
    /\ raised = "none"

\* No resolver function has been called
InitResolver ==
    /\ rCall = "none"
    /\ rArg = Unset
    /\ rRet = Unset

Init ==
    /\ InitProg
    /\ InitResolver
    /\ nIn = <<>>
    /\ nOut = Unset
    /\ nOut2 = Unset

-----------------------------------------------------------------------------
(* setLanguage *)

\* A caller calls setLanguage(l).
SetLanguage(l) ==
    /\ pc = "idle"
    /\ pc' = "resolve"
    /\ call' = "setLanguage"
    /\ lang' = l
    /\ localeName' = Unset
    /\ trans' = Unset
    /\ stack' = <<>>
    /\ log' = <<>>
    /\ raised' = "none"
    /\ UNCHANGED <<normVars, resVars, curLang, installed, threadLocale, pyLocale>>

\* Lines 162-163: localeName = getWindowsLanguage()
ResolveWindows ==
    /\ pc = "resolve"
    /\ IsWindowsSentinel(lang)
    /\ \E windowsLCID \in UILanguageIds, buf \in LocaleNameBuffers :
          /\ localeName' = getWindowsLanguage(windowsLCID, buf)
          /\ log' = Append(log, Event("uilang", 0,
                                      getWindowsLanguage(windowsLCID, buf),
                                      "ok", windowsLCID, 0))
    /\ pc' = "load"
    /\ UNCHANGED <<normVars, resVars, curLang, installed, threadLocale, pyLocale, call, lang,
                   trans, stack, raised>>

\* Lines 164-171: the thread locale. SetThreadLocale sets the locale ("ok"),
\* returns FALSE ("failed": ctypes raises nothing, the result is not looked
\* at) or raises IOError (caught and logged); the last two leave the thread
\* locale as it was.
SetThreadLocale ==
    /\ pc = "resolve"
    /\ ~IsWindowsSentinel(lang)
    /\ localeName' = lang
    /\ \E os \in OSLCIDs, out \in {"ok", "failed", "IOError"} :
          LET LCID == localeNameToWindowsLCID(os)
          IN  /\ threadLocale' = IF out = "ok" THEN LCID ELSE threadLocale
              /\ log' = Append(log, Event("thread", 0, OSLocaleName(lang),
                                          out, LCID, os))
              /\ pc' = AfterThreadLocale(out)
    /\ UNCHANGED <<normVars, resVars, curLang, installed, pyLocale, call, lang, trans, stack,
                   raised>>

\* Lines 173-179: gettext.translation finds the catalog or raises IOError.
LoadCatalog ==
    /\ pc = "load"
    /\ localeName # None
    /\ \E ok \in BOOLEAN :
          /\ trans' = LoadedTrans(localeName, ok)
          /\ curLang' = LoadedLang(localeName, ok)
          /\ log' = Append(log, Event("load", 0, localeName,
                                      IF ok THEN "ok" ELSE "IOError", 0, 0))
    /\ pc' = "install"
    /\ UNCHANGED <<normVars, resVars, installed, threadLocale, pyLocale, call, lang, localeName,
                   stack, raised>>

\* Line 174 with localeName None: gettext.translation raises AttributeError
\* (None has no lower()), which "except IOError" does not catch.
LoadCatalogNone ==
    /\ pc = "load"
    /\ localeName = None
    /\ log' = Append(log, Event("load", 0, localeName, "AttributeError", 0, 0))
    /\ raised' = "AttributeError"
    /\ pc' = "idle"
    /\ UNCHANGED <<normVars, resVars, curLang, installed, threadLocale, pyLocale, call, lang,
                   localeName, trans, stack>>

\* Line 182: trans.install
InstallCatalog ==
    /\ pc = "install"
    /\ installed' = trans
    /\ log' = Append(log, Event("install", 0, trans, "ok", 0, 0))
    /\ pc' = "setLocale"
    /\ UNCHANGED <<normVars, resVars, curLang, threadLocale, pyLocale, call, lang, localeName,
                   trans, stack, raised>>

\* Line 183: setLocale(curLang)
CallSetLocale ==
    /\ pc = "setLocale"
    /\ stack' = <<Frame(LocaleArgument(localeName, curLang))>>
    /\ log' = Append(log, Event("setLocale", 0,
                                LocaleArgument(localeName, curLang),
                                "ok", 0, 0))
    /\ pc' = "inSetLocale"
    /\ UNCHANGED <<normVars, resVars, curLang, installed, threadLocale, pyLocale, call, lang,
                   localeName, trans, raised>>

-----------------------------------------------------------------------------
(* setLocale *)

Top == stack[Len(stack)]

\* A caller other than setLanguage calls setLocale(code).
SetLocale(code) ==
    /\ pc = "idle"
    /\ pc' = "inSetLocale"
    /\ call' = "setLocale"
    /\ stack' = <<Frame(code)>>
    /\ log' = <<Event("setLocale", 0, code, "ok", 0, 0)>>
    /\ raised' = "none"
    /\ lang' = Unset
    /\ localeName' = Unset
    /\ trans' = Unset
    /\ UNCHANGED <<normVars, resVars, curLang, installed, threadLocale, pyLocale>>

\* return: the activation record goes; the outermost one ends the call
\* (setLanguage's line 183 is its last).
Return ==
    /\ stack' = SubSeq(stack, 1, Len(stack) - 1)
    /\ pc' = IF Len(stack) = 1 THEN "idle" ELSE pc

\* One try block: locale.setlocale(LC_ALL, name); locale.getlocale(); return,
\* with its two except clauses, which go on to next.
Attempt(name, next) ==
    \E out \in AttemptOutcomes :
       /\ pyLocale' = LocaleAfter(pyLocale, name, out)
       /\ log' = Append(log, Event("try", Len(stack), name, out, 0, 0))
       /\ IF out = "ok"
          THEN Return
          ELSE /\ stack' = [stack EXCEPT ![Len(stack)] =
                               [@ EXCEPT !.name = name, !.at = next]]
               /\ pc' = pc

\* Lines 216-224
TryExact ==
    /\ pc = "inSetLocale"
    /\ Top.at = "try1"
    /\ Attempt(Top.name, AfterExact(Top.name))
    /\ UNCHANGED <<normVars, resVars, curLang, installed, threadLocale, call, lang, localeName,
                   trans, raised>>

\* Lines 226-237
TryDashToUnderscore ==
    /\ pc = "inSetLocale"
    /\ Top.at = "try2"
    /\ Attempt(DashToUnderscore(Top.name),
               AfterDashToUnderscore(DashToUnderscore(Top.name)))
    /\ UNCHANGED <<normVars, resVars, curLang, installed, threadLocale, call, lang, localeName,
                   trans, raised>>

\* Lines 239-250
TryLanguageOnly ==
    /\ pc = "inSetLocale"
    /\ Top.at = "try3"
    /\ Attempt(LanguageOnly(Top.name), "fallback")
    /\ UNCHANGED <<normVars, resVars, curLang, installed, threadLocale, call, lang, localeName,
                   trans, raised>>

AtFallback(choice) ==
    /\ pc = "inSetLocale"
    /\ Top.at = "fallback"
    /\ FallbackChoice(pyLocale.readable, Top.orig, curLang) = choice

\* Lines 252-253: getlocale() succeeds and setLocale ends
FallbackReturn ==
    /\ AtFallback("return")
    /\ log' = Append(log, Event("getlocale", Len(stack), pyLocale.name,
                                "ok", 0, 0))
    /\ Return
    /\ UNCHANGED <<normVars, resVars, curLang, installed, threadLocale, pyLocale, call, lang,
                   localeName, trans, raised>>

\* Lines 257-260: locale.setlocale(locale.LC_ALL, "")
FallbackSystemDefault ==
    /\ AtFallback("system")
    /\ pyLocale' = [name |-> SystemDefault, readable |-> TRUE]
    /\ log' = Append(log, Event("system", Len(stack), SystemDefault,
                                "ok", 0, 0))
    /\ Return
    /\ UNCHANGED <<normVars, resVars, curLang, installed, threadLocale, call, lang, localeName,
                   trans, raised>>

\* Lines 261-264: setLocale(curLang)
FallbackRecurse ==
    /\ AtFallback("recurse")
    /\ Len(stack) < MaxDepth
    /\ stack' = Append([stack EXCEPT ![Len(stack)] = [@ EXCEPT !.at = "ret"]],
                       Frame(curLang))
    /\ log' = Append(log, Event("recurse", Len(stack), curLang, "ok", 0, 0))
    /\ UNCHANGED <<normVars, resVars, curLang, installed, threadLocale, pyLocale, pc, call, lang,
                   localeName, trans, raised>>

\* The nested call of line 264 has returned: so does this one.
ReturnToCaller ==
    /\ pc = "inSetLocale"
    /\ Top.at = "ret"
    /\ Return
    /\ UNCHANGED <<normVars, resVars, curLang, installed, threadLocale, pyLocale, call, lang,
                   localeName, trans, log, raised>>

-----------------------------------------------------------------------------
(* localeNameToWindowsLCID, called by others than setLanguage *)

LocaleNameToWindowsLCID(name) ==
    /\ pc = "idle"
    /\ call' = "localeNameToWindowsLCID"
    /\ \E os \in OSLCIDs :
          log' = <<Event("lookup", 0, OSLocaleName(name), "ok",
                         localeNameToWindowsLCID(os), os)>>
    /\ raised' = "none"
    /\ lang' = Unset
    /\ localeName' = Unset
    /\ trans' = Unset
    /\ UNCHANGED <<normVars, resVars, curLang, installed, threadLocale, pyLocale, pc, stack>>

-----------------------------------------------------------------------------
(* The program *)

\* What a caller may do when no call is running
Call ==
    \/ \E l \in Requested : SetLanguage(l)
    \/ \E code \in LocaleCodes : SetLocale(code)
    \/ \E name \in LocaleCodes : LocaleNameToWindowsLCID(name)

\* The steps of the running call
Step ==
    \/ ResolveWindows
    \/ SetThreadLocale
    \/ LoadCatalog
    \/ LoadCatalogNone
    \/ InstallCatalog
    \/ CallSetLocale
    \/ TryExact
    \/ TryDashToUnderscore
    \/ TryLanguageOnly
    \/ FallbackReturn
    \/ FallbackSystemDefault
    \/ FallbackRecurse
    \/ ReturnToCaller

Next == Call \/ Step

Spec == Init /\ [][Next]_vars

\* The interpreter runs a call to its end: a step that can be taken is taken.
FairSpec == Spec /\ WF_vars(Step)

-----------------------------------------------------------------------------
(* normalizeLanguage as a function of its input: every string of up to
   MaxLen characters is normalized, and its result normalized again. *)

InitNormalize ==
    /\ InitProg
    /\ InitResolver
    /\ nIn \in NormInputs
    /\ nOut = Unset
    /\ nOut2 = Unset

\* nOut = normalizeLanguage(nIn)
Normalize ==
    /\ nOut = Unset
    /\ nOut' = normalizeLanguage(nIn)
    /\ UNCHANGED <<progVars, resVars, nIn, nOut2>>

\* nOut2 = normalizeLanguage(nOut), when nOut is a string
NormalizeAgain ==
    /\ nOut \notin {Unset, None}
    /\ nOut2 = Unset
    /\ nOut2' = normalizeLanguage(nOut)
    /\ UNCHANGED <<progVars, resVars, nIn, nOut>>

NextNormalize == Normalize \/ NormalizeAgain

SpecNormalize == InitNormalize /\ [][NextNormalize]_vars

-----------------------------------------------------------------------------
(* Vocabulary of the properties *)

\* The events of the log with one of the given names, in order
EventsOf(names) ==
    LET Is(e) == e.ev \in names IN SelectSeq(log, Is)

\* The setLocale attempts made at recursion depth d, in order
TriesAt(d) ==
    LET Is(e) == e.ev = "try" /\ e.depth = d IN SelectSeq(log, Is)

\* The code setLocale was called with at depth d: the caller's argument at
\* depth 1, the argument of the nested call at depth 2 and deeper
CodeAt(d) ==
    LET Is(e) == IF d = 1 THEN e.ev = "setLocale"
                 ELSE e.ev = "recurse" /\ e.depth = d - 1
    IN  SelectSeq(log, Is)[1].name

Segments(s) == StrSplit(s, "_")

NoUpper(s) == \A i \in 1..Len(s) : ~IsUpperChar(s[i])

NoLower(s) == \A i \in 1..Len(s) : ~IsLowerChar(s[i])

\* A canonical LocaleCode: lang or lang_DIALECT
Canonical(s) ==
    /\ ~StrContains(s, "-")
    /\ Len(Segments(s)) <= 2
    /\ NoUpper(Segments(s)[1])
    /\ Len(Segments(s)) = 2 => NoLower(Segments(s)[2])

\* The number of dashes and underscores of s
Separators(s) == Cardinality({i \in 1..Len(s) : s[i] \in {"-", "_"}})

\* The language segment of s, lowercased, is the meta token "x"
IsMeta(s) ==
    /\ Len(s) >= 1
    /\ s[1] \in {"x", "X"}
    /\ Len(s) >= 2 => s[2] \in {"-", "_"}

\* No call is running
Idle == pc = "idle"

-----------------------------------------------------------------------------
(* Properties *)

\* C1: setLanguage never raises: whatever string is requested and whatever
\* the OS lookups, the thread-locale setter, the catalog loader and the
\* locale attempts do, no exception escapes the call.
C1_NeverRaises == raised = "none"

\* C2: once a catalog is installed and no call is running, getLanguage()
\* names the installed catalog: it is the installed catalog's code, or "en"
\* with the fallback catalog installed; and after a setLanguage call that
\* returned, it is the resolved code if the load succeeded and "en" with the
\* fallback catalog if the load failed.
C2_LanguageIsInstalledCatalog ==
    (Idle /\ installed # NotInstalled) =>
        /\ \/ installed = Fallback /\ getLanguage = EN
           \/ installed # Fallback /\ getLanguage = installed
        /\ (call = "setLanguage" /\ raised = "none") =>
              LET load == EventsOf({"load"})[1]
              IN  /\ load.name = localeName
                  /\ load.out = "ok" =>
                        getLanguage = localeName /\ installed = localeName
                  /\ load.out = "IOError" =>
                        getLanguage = EN /\ installed = Fallback

\* C2's case: a requested catalog failed to load, and "en" with the fallback
\* catalog is what setLanguage left.
C2_Witness ==
    /\ Idle
    /\ call = "setLanguage"
    /\ lang = DE
    /\ EventsOf({"load"}) # <<>>
    /\ EventsOf({"load"})[1].out = "IOError"
    /\ getLanguage = EN
    /\ installed = Fallback

\* C3: setLanguage("Windows") always ends with getLanguage() a LocaleCode,
\* whatever the OS's user-UI-language query gives; when the query chain
\* gives nothing usable (an empty name, a meta language) the code is "en".
C3_WindowsEndsWithACode ==
    (Idle /\ call = "setLanguage" /\ lang = WINDOWS) =>
        /\ raised = "none"
        /\ getLanguage # None
        /\ LET query == EventsOf({"uilang"})[1]
           IN  (query.id \notin DOMAIN windows_locale /\ query.name \in {None, EN})
                  => getLanguage = EN

\* C4: getLanguage() is a canonical LocaleCode in every state: no dash, a
\* lowercase language, an uppercase dialect if any.
C4_LanguageIsCanonical == Canonical(getLanguage)


\* The candidates setLocale(code) may try, in order: the code; with a dash
\* in it, the code with underscores for dashes; with an underscore in the
\* code so rewritten, what stands before its first underscore.
Cascade(code) ==
    LET under == [i \in 1..Len(code) |->
                     IF code[i] = "-" THEN "_" ELSE code[i]]
        cut   == CHOOSE k \in 1..Len(under) :
                     under[k] = "_" /\ \A j \in 1..(k - 1) : under[j] # "_"
    IN  <<code>>
        \o (IF \E i \in 1..Len(code) : code[i] = "-" THEN <<under>> ELSE <<>>)
        \o (IF \E i \in 1..Len(under) : under[i] = "_"
            THEN <<SubSeq(under, 1, cut - 1)>> ELSE <<>>)

\* The number of attempts at depth d among the first i events of the log
TriesBefore(d, i) ==
    Cardinality({j \in 1..i : log[j].ev = "try" /\ log[j].depth = d})

FallbackEvents == {"getlocale", "system", "recurse"}

\* C5: setLocale tries its candidates in the fixed order (the code, the code
\* with underscores for dashes if it has a dash, the language alone if it
\* then has an underscore), each only after the one before failed; the
\* fallback of lines 252-264 is reached only after every applicable candidate
\* failed, and nothing is tried after a success or after the fallback.
C5_CascadeOrder ==
    \A i \in 1..Len(log) :
        LET e == log[i]
            d == e.depth
        IN  /\ e.ev = "try" =>
                  /\ TriesBefore(d, i) <= Len(Cascade(CodeAt(d)))
                  /\ e.name = Cascade(CodeAt(d))[TriesBefore(d, i)]
                  /\ \A j \in 1..(i - 1) :
                        (log[j].ev = "try" /\ log[j].depth = d)
                           => log[j].out # "ok"
                  /\ \A j \in 1..(i - 1) :
                        ~(log[j].ev \in FallbackEvents /\ log[j].depth = d)
            /\ e.ev \in FallbackEvents =>
                  /\ TriesBefore(d, i) = Len(Cascade(CodeAt(d)))
                  /\ \A j \in 1..(i - 1) :
                        (log[j].ev = "try" /\ log[j].depth = d)
                           => log[j].out # "ok"

\* C5's case: a code with a dash that is valid in its language-only form
\* alone: the code, the code with an underscore and the language were tried,
\* in this order, and only the last succeeded.
C5_Witness ==
    /\ Idle
    /\ Len(TriesAt(1)) = 3
    /\ TriesAt(1)[1].name = ES_DASH /\ TriesAt(1)[1].out # "ok"
    /\ TriesAt(1)[2].name = ES_UNDER /\ TriesAt(1)[2].out # "ok"
    /\ TriesAt(1)[3].name = ES /\ TriesAt(1)[3].out = "ok"
    /\ EventsOf(FallbackEvents) = <<>>

\* A setLocale call has returned after every attempt it made for its code
\* failed, and its code is the active language.
ActiveLanguageFailed ==
    /\ Idle
    /\ call \in {"setLanguage", "setLocale"}
    /\ raised = "none"
    /\ EventsOf({"setLocale"}) # <<>>
    /\ CodeAt(1) = curLang
    /\ \A i \in 1..Len(TriesAt(1)) : TriesAt(1)[i].out # "ok"

\* C6: when every explicit attempt of setLocale(code) failed, by a rejected
\* set or by a set that could not be read back, and code is the active
\* language, the locale is the system default when setLocale returns.
C6_SystemDefaultWhenActiveFails ==
    ActiveLanguageFailed => pyLocale.name = SystemDefault

\* C7: every call of setLocale ends, and a top-level call makes at most one
\* nested call, with the active language, which makes none.
C7_SetLocaleTerminates ==
    /\ [](Len(stack) <= 2)
    /\ [](Len(stack) = 2 => stack[2].orig = curLang /\ stack[1].at = "ret")
    /\ [](Len(EventsOf({"recurse"})) <= 1)
    /\ (pc = "inSetLocale") ~> Idle

\* C7's case: the nested call of line 264 is running.
C7_Witness == Len(stack) = 2 /\ stack[1].orig # curLang

\* C8: localeNameToWindowsLCID never returns LOCALE_CUSTOM_UNSPECIFIED: it
\* returns LCID_NONE when the OS answered with it, and any other answer of
\* the OS as it is.
C8_NoCustomUnspecified ==
    \A i \in 1..Len(log) :
        log[i].ev \in {"thread", "lookup"} =>
            /\ log[i].id # LOCALE_CUSTOM_UNSPECIFIED
            /\ log[i].os = LOCALE_CUSTOM_UNSPECIFIED => log[i].id = LCID_NONE
            /\ log[i].os # LOCALE_CUSTOM_UNSPECIFIED => log[i].id = log[i].os

\* C8's case: the OS answered LOCALE_CUSTOM_UNSPECIFIED and the caller got
\* LCID_NONE.
C8_Witness ==
    \E i \in 1..Len(log) :
        /\ log[i].ev = "lookup"
        /\ log[i].os = LOCALE_CUSTOM_UNSPECIFIED
        /\ log[i].id = LCID_NONE


\* The parts of s between its dashes and underscores
RECURSIVE Parts(_)
Parts(s) ==
    IF \A i \in 1..Len(s) : s[i] \notin {"-", "_"}
    THEN <<s>>
    ELSE LET k == CHOOSE n \in 1..Len(s) :
                     /\ s[n] \in {"-", "_"}
                     /\ \A j \in 1..(n - 1) : s[j] \notin {"-", "_"}
         IN  <<SubSeq(s, 1, k - 1)>> \o Parts(SubSeq(s, k + 1, Len(s)))

C10_Idempotent == nOut2 # Unset => nOut2 = nOut

\* C10's case: an input that normalization changes was normalized twice.
C10_Witness ==
    /\ nOut2 # Unset
    /\ nOut # nIn
    /\ Len(Segments(nOut)) >= 2
    /\ Segments(nOut)[2] # <<>>

-----------------------------------------------------------------------------
(* windowsLCIDToLocaleName *)

CKB == <<"c","k","b">>

\* The KeyError a failed table lookup raises, which nothing catches
KeyError == <<"KeyError">>

\* windowsPrimaryLCIDsToLocaleNames (an excerpt): primary language ids, and
\* 1170, one of the full ids the table also holds
windowsPrimaryLCIDsToLocaleNames ==
    (7 :> DE) @@ (9 :> EN) @@ (10 :> ES) @@ (1170 :> CKB)

\* The ids windowsLCIDToLocaleName is called with: 3082 (es_ES, in
\* locale.windows_locale), 10 (the primary id of Spanish), 1170, 22538
\* (0x580A, Spanish of Latin America, which locale.windows_locale does not
\* hold) and 4096 (in neither table)
ResolverLCIDs == {3082, 10, 1170, 22538, 4096}

\* Lines 60-61: if lang: return normalizeLanguage(lang)
ReturnNormalized(l) == IF l # <<>> THEN normalizeLanguage(l) ELSE None

windowsLCIDToLocaleName(lcid) ==
    IF lcid \in DOMAIN windows_locale
    THEN ReturnNormalized(windows_locale[lcid])
    ELSE IF lcid \in DOMAIN windowsPrimaryLCIDsToLocaleNames
         THEN ReturnNormalized(windowsPrimaryLCIDsToLocaleNames[lcid])
         ELSE KeyError

\* A caller calls windowsLCIDToLocaleName(lcid).
WindowsLCIDToLocaleName(lcid) ==
    /\ pc = "idle"
    /\ rCall = "none"
    /\ rCall' = "windowsLCIDToLocaleName"
    /\ rArg' = [lcid |-> lcid]
    /\ rRet' = windowsLCIDToLocaleName(lcid)
    /\ UNCHANGED <<progVars, normVars>>

\* The mask of line 288: a primary language id is an id's low ten bits
PrimaryLanguageMask == 1023

\* lcid & 0x3ff
PrimaryLanguageId(lcid) == lcid % (PrimaryLanguageMask + 1)

\* C11: windowsLCIDToLocaleName looks the id up in the full-locale table; on
\* a miss it looks the id's primary-language bits (the sub-language bits
\* masked off) up in the legacy table, so that every id absent from the full
\* table whose masked bits are a key resolves to that key's language; it
\* fails only when both miss; what it finds it returns normalized.
C11_MaskedLegacyLookup ==
    rCall = "windowsLCIDToLocaleName" =>
        LET id      == rArg.lcid
            primary == PrimaryLanguageId(id)
        IN  /\ id \in DOMAIN windows_locale =>
                  rRet = normalizeLanguage(windows_locale[id])
            /\ (/\ id \notin DOMAIN windows_locale
                /\ primary \in DOMAIN windowsPrimaryLCIDsToLocaleNames) =>
                  rRet = normalizeLanguage(
                             windowsPrimaryLCIDsToLocaleNames[primary])
            /\ rRet = KeyError =>
                  /\ id \notin DOMAIN windows_locale
                  /\ primary \notin DOMAIN windowsPrimaryLCIDsToLocaleNames

-----------------------------------------------------------------------------
(* getLanguageDescription *)

AN == <<"a","n">>

\* What the OS calls the languages of the model
LanguageNames ==
    (AN  :> <<"A","r","a","g","o","n","e","s","e">>) @@
    (CKB :> <<"S","o","r","a","n","i">>) @@
    (DE  :> <<"G","e","r","m","a","n">>) @@
    (EN  :> <<"E","n","g","l","i","s","h">>) @@
    (ES  :> <<"S","p","a","n","i","s","h">>)

\* GetLocaleInfoW(LCID, LOCALE_SLANGDISPLAYNAME): the language's name
OSDisplayName(language) == LanguageNames[StrSplit(language, "_")[1]]

\* GetLocaleInfoW(LCID, LOCALE_SLANGUAGE): the language's full name, with
\* its country ("*" stands for the default one)
OSLanguageName(language) ==
    LET ld == StrSplit(language, "_")
    IN  LanguageNames[ld[1]] \o <<" ", "(">>
        \o (IF Len(ld) >= 2 THEN ld[2] ELSE <<"*">>) \o <<")">>

\* Lines 79-90 (an excerpt): the hard-coded descriptions
HardCodedDescriptions ==
    (AN  :> <<"A","r","a","g","o","n","e","s","e">>) @@
    (CKB :> <<"C","e","n","t","r","a","l"," ","K","u","r","d","i","s","h">>)

\* The codes getLanguageDescription is called with
DescribedCodes == {AN, CKB, DE, EN, ES_UNDER}

\* Faulty variant: no description at all for a code with no LCID.
DescriptionNeedsLCID(language, LCID, displayOk, languageOk) ==
    IF LCID = LCID_NONE THEN None
    ELSE IF ~StrContains(language, "_") /\ displayOk
         THEN OSDisplayName(language)
    ELSE IF languageOk THEN OSLanguageName(language)
    ELSE IF language \in DOMAIN HardCodedDescriptions
         THEN HardCodedDescriptions[language]
    ELSE None

\* LCID is what localeNameToWindowsLCID(language) returned; displayOk and
\* languageOk are whether GetLocaleInfoW gives the display name and the
\* language name (a result of 0 leaves the buffer empty)
getLanguageDescription(language, LCID, displayOk, languageOk) ==
    LET desc ==
            IF LCID # LCID_NONE
            THEN IF ~StrContains(language, "_") /\ displayOk
                 THEN OSDisplayName(language)
                 ELSE IF languageOk THEN OSLanguageName(language) ELSE <<>>
            ELSE None
    IN  IF desc \in {None, <<>>}
        THEN IF language \in DOMAIN HardCodedDescriptions
             THEN HardCodedDescriptions[language]
             ELSE None
        ELSE desc

\* A caller calls getLanguageDescription(language).
GetLanguageDescription(language) ==
    /\ pc = "idle"
    /\ rCall = "none"
    /\ rCall' = "getLanguageDescription"
    /\ \E os \in OSLCIDs, displayOk \in BOOLEAN, languageOk \in BOOLEAN :
          /\ rArg' = [language |-> language,
                      LCID |-> localeNameToWindowsLCID(os),
                      displayOk |-> displayOk, languageOk |-> languageOk]
          /\ rRet' = getLanguageDescription(language,
                         localeNameToWindowsLCID(os), displayOk, languageOk)
    /\ UNCHANGED <<progVars, normVars>>

\* The OS gave a description: the code has an LCID and a query succeeded
GotMetadata ==
    /\ rArg.LCID # LCID_NONE
    /\ \/ ~(\E i \in 1..Len(rArg.language) : rArg.language[i] = "_")
          /\ rArg.displayOk
       \/ rArg.languageOk

\* C12 as stated: getLanguageDescription returns none for every code with no
\* native id, the codes of the hard-coded table included; the table is
\* consulted only when there is a native id and the OS gave no description.
C12_NoneWithoutLCID ==
    rCall = "getLanguageDescription" =>
        /\ rArg.LCID = LCID_NONE => rRet = None
        /\ GotMetadata =>
              rRet \in {OSDisplayName(rArg.language),
                        OSLanguageName(rArg.language)}

\* C12, amended: the hard-coded table is consulted whenever the OS gave no
\* description, because the code has no native id or because the metadata
\* queries gave nothing: the result is then the code's entry in the table,
\* or none for a code with no entry. A description the OS gave is returned.
C12_HardCodedWhenNoMetadata ==
    rCall = "getLanguageDescription" =>
        /\ GotMetadata =>
              rRet \in {OSDisplayName(rArg.language),
                        OSLanguageName(rArg.language)}
        /\ (~GotMetadata /\ rArg.language \in DOMAIN HardCodedDescriptions) =>
              rRet = HardCodedDescriptions[rArg.language]
        /\ (~GotMetadata /\ rArg.language \notin DOMAIN HardCodedDescriptions)
              => rRet = None

\* C12's case: "an" has no native id and is described by the table.
C12_Witness ==
    /\ rCall = "getLanguageDescription"
    /\ rArg.language = AN
    /\ rArg.LCID = LCID_NONE
    /\ rRet = HardCodedDescriptions[AN]

-----------------------------------------------------------------------------
(* getAvailableLanguages *)

\* Most catalogs the locale directory holds in the model.
MaxCatalogs == 3

\* The codes catalogs are installed for
CatalogCodes == {AN, DE, EN, ES}

\* What os.listdir, filtered by line 102, can give: the installed codes, each
\* once, in any order
Listings ==
    {l \in UNION {[1..n -> CatalogCodes] : n \in 0..MaxCatalogs} :
        \A i \in 1..Len(l), j \in 1..Len(l) : i # j => l[i] # l[j]}

\* The characters of the model's strings, by code point
CodePoints ==
    <<" ", "(", ")", "*", ",", "-">> \o UpperAlpha \o <<"_">> \o LowerAlpha

CharRank(c) == CHOOSE i \in 1..Len(CodePoints) : CodePoints[i] = c

\* a < b for two strings, as Python compares them
StrLess(a, b) ==
    \E k \in 1..(Len(a) + 1) :
        /\ \A i \in 1..(k - 1) : i <= Len(b) /\ a[i] = b[i]
        /\ k <= Len(b)
        /\ k <= Len(a) => CharRank(a[k]) < CharRank(b[k])

\* list.sort(key=...): a stable sort of s by the keys of its elements, keys[i]
\* being the key of s[i]
SortBy(s, keys) ==
    LET pos(i) == 1 + Cardinality({j \in 1..Len(s) :
                         \/ StrLess(keys[j], keys[i])
                         \/ ~StrLess(keys[i], keys[j]) /\ j < i})
    IN  [k \in 1..Len(s) |-> s[CHOOSE i \in 1..Len(s) : pos(i) = k]]

\* Faulty variant: "en" is not added.
ListingAsItIs(listing) == listing

\* Lines 105-107: 'en' is appended, and the list sorted, when it is missing
LocalesWithEnglish(listing) ==
    IF \E i \in 1..Len(listing) : listing[i] = EN
    THEN listing
    ELSE SortBy(Append(listing, EN), Append(listing, EN))

\* The two patterns line 114 may be translated to, as their parts
DescFirstPattern == <<"{desc}", ", ", "{lc}">>

CodeFirstPattern == <<"{lc}", ", ", "{desc}">>

\* fullDescPattern.find(part)
Find(pattern, part) ==
    IF \E i \in 1..Len(pattern) : pattern[i] = part
    THEN CHOOSE i \in 1..Len(pattern) : pattern[i] = part
    ELSE -1

\* fullDescPattern.format(desc=desc, lc=lc)
Format(pattern, desc, lc) ==
    LET Part(t) == IF t = "{desc}" THEN desc
                   ELSE IF t = "{lc}" THEN lc
                   ELSE <<",", " ">>
    IN  Part(pattern[1]) \o Part(pattern[2]) \o Part(pattern[3])

\* Faulty variant: the pattern is not looked at.
SortsWhenPresentational(presentational, pattern) == presentational

\* Lines 115-116: presentational and isDescFirst
SortsForDisplay(presentational, pattern) ==
    presentational /\ Find(pattern, "{desc}") < Find(pattern, "{lc}")

\* getLanguageDescription(lc) when the OS describes the codes of known and
\* has no LCID for the others
DescriptionOf(lc, known) ==
    getLanguageDescription(lc, IF lc \in known THEN 3082 ELSE LCID_NONE,
                           TRUE, TRUE)

\* Line 117's key: lang[1] if lang[1] else lang[0]
SortKey(entry) == IF entry[2] # None THEN entry[2] ELSE entry[1]

getAvailableLanguages(listing, presentational, pattern, known) ==
    LET locales == LocalesWithEnglish(listing)
        langs   == [i \in 1..Len(locales) |->
                       <<locales[i], DescriptionOf(locales[i], known)>>]
        sorted  == IF SortsForDisplay(presentational, pattern)
                   THEN SortBy(langs, [i \in 1..Len(langs) |-> SortKey(langs[i])])
                   ELSE langs
        shown   == [i \in 1..Len(sorted) |->
                       <<sorted[i][1],
                         IF sorted[i][2] # None
                         THEN Format(pattern, sorted[i][2], sorted[i][1])
                         ELSE sorted[i][1]>>]
    IN  <<<<WINDOWS, <<"User default">>>>>> \o shown

\* A caller calls getAvailableLanguages(presentational).
GetAvailableLanguages(presentational) ==
    /\ pc = "idle"
    /\ rCall = "none"
    /\ rCall' = "getAvailableLanguages"
    /\ \E listing \in Listings, known \in SUBSET CatalogCodes,
          pattern \in {DescFirstPattern, CodeFirstPattern} :
          /\ rArg' = [listing |-> listing, presentational |-> presentational,
                      pattern |-> pattern, known |-> known]
          /\ rRet' = getAvailableLanguages(listing, presentational, pattern,
                                           known)
    /\ UNCHANGED <<progVars, normVars>>

-----------------------------------------------------------------------------
(* The resolver functions: each behaviour is one call, with any input and any
   answer of the collaborators *)

NextResolver ==
    \/ \E lcid \in ResolverLCIDs : WindowsLCIDToLocaleName(lcid)
    \/ \E language \in DescribedCodes : GetLanguageDescription(language)
    \/ \E presentational \in BOOLEAN : GetAvailableLanguages(presentational)

SpecResolver == Init /\ [][NextResolver]_vars

-----------------------------------------------------------------------------
(* Properties of the resolver functions *)

\* The codes of the entries getAvailableLanguages returned, in order
ListedCodes == [i \in 1..Len(rRet) |-> rRet[i][1]]

\* How many of the entries returned have this code
TimesListed(code) ==
    Cardinality({i \in 1..Len(rRet) : rRet[i][1] = code})

\* C13: whatever catalogs are installed and whatever the sort flag, the list
\* getAvailableLanguages returns has the "Windows" entry first and once, and
\* one entry for "en", with or without an "en" catalog.
C13_SentinelFirstEnglishListed ==
    rCall = "getAvailableLanguages" =>
        /\ rRet[1][1] = WINDOWS
        /\ TimesListed(WINDOWS) = 1
        /\ TimesListed(EN) = 1

\* C13's case: no "en" catalog is installed, the list is sorted for display
\* and "en" is listed all the same.
C13_Witness ==
    /\ rCall = "getAvailableLanguages"
    /\ rArg.presentational
    /\ rArg.pattern = DescFirstPattern
    /\ Len(rArg.listing) >= 2
    /\ \A i \in 1..Len(rArg.listing) : rArg.listing[i] # EN
    /\ TimesListed(EN) = 1

\* The entries after the sentinel
ListedTail == SubSeq(ListedCodes, 2, Len(ListedCodes))

\* What an entry is sorted by: its description if it has one, else its code
ListedKey(code) ==
    IF DescriptionOf(code, rArg.known) # None
    THEN DescriptionOf(code, rArg.known)
    ELSE code

EnglishInstalled == \E i \in 1..Len(rArg.listing) : rArg.listing[i] = EN

\* The entries after the sentinel are in ascending order of their keys
TailSortedByKey ==
    \A i \in 1..Len(ListedTail), j \in 1..Len(ListedTail) :
        i < j => ~StrLess(ListedKey(ListedTail[j]), ListedKey(ListedTail[i]))

\* The installed codes among the entries after the sentinel are in the order
\* the catalogs were enumerated in
TailInEnumerationOrder ==
    LET Installed(c) == \E i \in 1..Len(rArg.listing) : rArg.listing[i] = c
    IN  SelectSeq(ListedTail, Installed) = rArg.listing

DescFirst == rArg.pattern[1] = "{desc}"

\* C14 as stated: the entries after the sentinel are sorted by description,
\* or code where there is none, when the sort flag is set and the pattern
\* puts the description first; otherwise they are in catalog-enumeration
\* order, also when "en" had no catalog and was added.
C14_SortedOrEnumerationOrder ==
    rCall = "getAvailableLanguages" =>
        IF rArg.presentational /\ DescFirst
        THEN TailSortedByKey
        ELSE TailInEnumerationOrder

\* C14, amended: sorted by description, or code where there is none, when the
\* sort flag is set and the pattern puts the description first; otherwise in
\* catalog-enumeration order when an "en" catalog is installed, and in
\* ascending order of the codes when "en" had no catalog and was added.
C14_SortedEnumeratedOrByCode ==
    rCall = "getAvailableLanguages" =>
        /\ {ListedTail[i] : i \in 1..Len(ListedTail)}
              = {rArg.listing[i] : i \in 1..Len(rArg.listing)} \cup {EN}
        /\ IF rArg.presentational /\ DescFirst
           THEN TailSortedByKey
           ELSE IF EnglishInstalled
           THEN ListedTail = rArg.listing
           ELSE \A i \in 1..Len(ListedTail), j \in 1..Len(ListedTail) :
                   i < j => StrLess(ListedTail[i], ListedTail[j])

\* C14's case: "de" and "en" are enumerated in this order and listed as
\* English, German, sorted by their descriptions.
C14_Witness ==
    /\ rCall = "getAvailableLanguages"
    /\ rArg.presentational
    /\ DescFirst
    /\ rArg.listing = <<DE, EN>>
    /\ rArg.known = {DE, EN}
    /\ ListedCodes = <<WINDOWS, EN, DE>>

-----------------------------------------------------------------------------
(* Properties of the steps of setLanguage and of the setLocale it calls *)

\* The steps of setLanguage after the requested string is resolved
StepOrder == <<"thread", "load", "install", "setLocale">>

\* The steps the running or last call has taken, in order
Steps == EventsOf({"thread", "load", "install", "setLocale"})

\* setLanguage(code) got no id for its code or could not set the thread
\* locale
ThreadStepFailed ==
    /\ call = "setLanguage"
    /\ EventsOf({"thread"}) # <<>>
    /\ \/ EventsOf({"thread"})[1].id = LCID_NONE
       \/ EventsOf({"thread"})[1].out # "ok"

\* What setLanguage leaves when it has returned depends on the load alone
OutcomeFollowsLoad ==
    LET load == Steps[2]
    IN  /\ load.name = lang
        /\ load.out \in {"ok", "IOError"}
        /\ load.out = "ok" => getLanguage = lang /\ installed = lang
        /\ load.out = "IOError" => getLanguage = EN /\ installed = Fallback

\* C15: a failure of the thread-locale step of setLanguage(code), the OS
\* having no id for the code or the setter failing, raises nothing and
\* changes nothing of what follows: the catalog load, the install and
\* setLocale run, in this order, the call returns, and getLanguage() and the
\* installed catalog are the code's if the load succeeded and "en" with the
\* fallback catalog if it failed.
C15_ThreadLocaleFailureIsHarmless ==
    /\ [](ThreadStepFailed =>
            /\ raised = "none"
            /\ Len(Steps) <= Len(StepOrder)
            /\ \A i \in 1..Len(Steps) : Steps[i].ev = StepOrder[i]
            /\ Idle => Len(Steps) = Len(StepOrder) /\ OutcomeFollowsLoad)
    /\ (ThreadStepFailed /\ ~Idle)
          ~> (ThreadStepFailed /\ Idle /\ Len(Steps) = Len(StepOrder))

\* C15's case: the OS has no id for "de", the thread locale could not be set,
\* no catalog was found, and setLanguage returned with "en" and the fallback
\* catalog.
C15_Witness ==
    /\ Idle
    /\ ThreadStepFailed
    /\ lang = DE
    /\ EventsOf({"thread"})[1].id = LCID_NONE
    /\ EventsOf({"thread"})[1].out = "failed"
    /\ Len(Steps) = Len(StepOrder)
    /\ Steps[2].out = "IOError"
    /\ getLanguage = EN
    /\ installed = Fallback

\* C16: setLanguage sets the thread locale if and only if the requested
\* string is not "Windows": setLanguage("Windows") makes no attempt and
\* leaves the thread locale as it was; for any other string the setter is
\* called once, first of all steps and so before the load, with the id that
\* localeNameToWindowsLCID gave for the string.
C16_ThreadLocaleUnlessSentinel ==
    /\ []((call = "setLanguage" /\ lang = WINDOWS) =>
             EventsOf({"thread"}) = <<>>)
    /\ [][(call' = "setLanguage" /\ lang' = WINDOWS) =>
             threadLocale' = threadLocale]_vars
    /\ []((call = "setLanguage" /\ lang # WINDOWS /\ pc # "resolve") =>
             /\ Len(EventsOf({"thread"})) = 1
             /\ log[1].ev = "thread"
             /\ log[1].name = OSLocaleName(lang)
             /\ log[1].id = localeNameToWindowsLCID(log[1].os)
             /\ log[1].out = "ok" => threadLocale = log[1].id)
    /\ [][(call' = "setLanguage" /\ lang' # WINDOWS /\ pc' # "resolve"
              /\ log'[1].out # "ok") =>
             threadLocale' = threadLocale]_vars

\* C16's case: setLanguage("Windows") has returned with the thread locale
\* an earlier setLanguage("es_ES") had set.
C16_Witness ==
    /\ Idle
    /\ call = "setLanguage"
    /\ lang = WINDOWS
    /\ raised = "none"
    /\ EventsOf({"load"}) # <<>>
    /\ threadLocale = 3082

\* An attempt set a locale that could not be read back, and no attempt after
\* it succeeded
UnreadableNotReplaced ==
    \E i \in 1..Len(log) :
        /\ log[i].ev = "try"
        /\ log[i].out = "ValueError"
        /\ \A j \in (i + 1)..Len(log) :
              log[j].ev = "try" => log[j].out # "ok"

\* C17: when setLocale has returned, locale.getlocale() can read the locale;
\* if an attempt had set one that could not be read back and no later
\* attempt succeeded, the last thing the call did was to set the system
\* default, in the call itself or in the nested call with the active
\* language.
C17_ReadableOnReturn ==
    Idle =>
        /\ pyLocale.readable
        /\ (call \in {"setLanguage", "setLocale"} /\ UnreadableNotReplaced) =>
              /\ pyLocale.name = SystemDefault
              /\ log[Len(log)].ev = "system"
              /\ log[Len(log)].depth = Len(EventsOf({"recurse"})) + 1

\* C17's case: setLocale("es-ES"), with "de" the active language, set a
\* locale that could not be read back; the nested call for "de" set none and
\* reset the locale to the system default.
C17_Witness ==
    /\ Idle
    /\ call = "setLocale"
    /\ UnreadableNotReplaced
    /\ Len(EventsOf({"recurse"})) = 1
    /\ TriesAt(2) # <<>>
    /\ \A i \in 1..Len(TriesAt(2)) : TriesAt(2)[i].out = "Error"
    /\ log[Len(log)].ev = "system"
    /\ pyLocale = [name |-> SystemDefault, readable |-> TRUE]

\* C18: setLanguage calls setLocale with curLang as the load left it (the
\* code of the installed catalog, "en" if none was found) and after the
\* install; so the call's code is the active language, setLocale makes no
\* nested call under setLanguage, and a nested call is only made for a
\* caller of setLocale whose code is not the active language.
C18_SetLocaleGetsActiveLanguage ==
    /\ call = "setLanguage" =>
          /\ \A i \in 1..Len(log) :
                log[i].ev = "setLocale" =>
                   /\ log[i].name = getLanguage
                   /\ i > 1 /\ log[i - 1].ev = "install"
                   /\ log[i].name = (IF log[i - 1].name = Fallback
                                     THEN EN ELSE log[i - 1].name)
          /\ EventsOf({"recurse"}) = <<>>
          /\ Len(stack) <= 1
          /\ \A i \in 1..Len(stack) : stack[i].orig = getLanguage
    /\ EventsOf({"recurse"}) # <<>> =>
          /\ call = "setLocale"
          /\ CodeAt(1) # getLanguage

\* C18's case: setLanguage("de") found no catalog and called setLocale("en"),
\* which, every attempt failing and the locale unreadable, set the system
\* default without a nested call.
C18_Witness ==
    /\ Idle
    /\ call = "setLanguage"
    /\ lang = DE
    /\ EventsOf({"setLocale"}) # <<>>
    /\ EventsOf({"setLocale"})[1].name = EN
    /\ EventsOf({"system"}) # <<>>
    /\ EventsOf({"recurse"}) = <<>>

====
